---- MODULE Spec2Model ----
(***************************************************************************)
(* Model of the BaseProjects utility helpers:                              *)
(*   utils/module.py  look_up_option, min_version, optional_import,        *)
(*                    get_package_version                                  *)
(*   apps/utils.py    _basename, check_hash, download_url, extractall      *)
(*                                                                         *)
(* Python strings are modelled as sequences of atoms (an atom is a run of  *)
(* characters that the code never looks inside, or a single " ", "." or    *)
(* "/"), so that strip(), lower(), split("."), endswith() and substring    *)
(* tests are computed and not assumed.                                     *)
(***************************************************************************)
EXTENDS Integers, Sequences, FiniteSets, TLC

VARIABLES pc, call, ret, dst, tmp, net, outdir, steps,
          cudnn, saved, rng, loggers, out

\* the state of utils/misc.py, of the logging registry and of the streams
hostVars == <<cudnn, saved, rng, loggers, out>>
vars == <<pc, call, ret, dst, tmp, net, outdir, steps, hostVars>>

(***************************************************************************)
(* Bounds of the model                                                     *)
(***************************************************************************)
\* longest file content, in bytes
MaxLen == 2
\* largest byte value of a file content
MaxByte == 1
\* digests are numbers in 0 .. HashMod-1
HashMod == 4
\* width of a seed in bits (32 in the program: np.uint32)
SeedBits == 2
\* most values one generator hands out between two calls
MaxDraws == 1
\* most host probes that fail in one report
MaxFailures == 1
\* most GPUs of the host
MaxGpus == 1
\* most handlers one logger carries
MaxHandlers == 3

(***************************************************************************)
(* Strings                                                                 *)
(***************************************************************************)
SP == " "

RECURSIVE LStrip(_, _)
LStrip(s, chars) ==
    IF s # <<>> /\ Head(s) \in chars THEN LStrip(Tail(s), chars) ELSE s

RECURSIVE RStrip(_, _)
RStrip(s, chars) ==
    IF s # <<>> /\ s[Len(s)] \in chars
    THEN RStrip(SubSeq(s, 1, Len(s) - 1), chars)
    ELSE s

\* str.strip()
Strip(s) == RStrip(LStrip(s, {SP}), {SP})

LowerAtom(a) ==
    CASE a = "ZIP" -> "zip"
      [] a = "Zip" -> "zip"
      [] a = "TAR" -> "tar"
      [] a = "GZ"  -> "gz"
      [] OTHER     -> a

\* str.lower()
Lower(s) == [i \in 1..Len(s) |-> LowerAtom(s[i])]

\* str.endswith(suffix)
EndsWith(s, suffix) ==
    /\ Len(s) >= Len(suffix)
    /\ SubSeq(s, Len(s) - Len(suffix) + 1, Len(s)) = suffix

\* sub in s
Contains(s, sub) ==
    \E i \in 1..(Len(s) + 1) :
        /\ i + Len(sub) - 1 <= Len(s)
        /\ SubSeq(s, i, i + Len(sub) - 1) = sub

\* s.split(".")[0]
RECURSIVE SplitDotFirst(_)
SplitDotFirst(s) ==
    IF s = <<>> \/ Head(s) = "." THEN <<>>
    ELSE <<Head(s)>> \o SplitDotFirst(Tail(s))

\* the part of s after its last "/"
RECURSIVE LastSegment(_)
LastSegment(s) ==
    IF s = <<>> \/ s[Len(s)] = "/" THEN <<>>
    ELSE LastSegment(SubSeq(s, 1, Len(s) - 1)) \o <<s[Len(s)]>>

\* _basename(p): strip trailing separators and spaces, keep the last part
Basename(p) == LastSegment(RStrip(p, {"/", SP}))

(***************************************************************************)
(* Python values                                                           *)
(***************************************************************************)
StrV(s)  == [t |-> "str",  v |-> s]
IntV(n)  == [t |-> "int",  v |-> <<n>>]
NoneV   == [t |-> "none", v |-> <<>>]
BoolV(b) == [t |-> "bool", v |-> <<b>>]
ListV(s) == [t |-> "list", v |-> s]
Func(n) == [t |-> "func", v |-> <<n>>]
EnumM(cls, name) == [t |-> "enum", v |-> <<cls, name>>]

\* the parameter default of look_up_option
NoDefault == StrV(<<"no_default">>)

IsHashable(x) == x.t # "list"

\* definitions of the enumerated types used as option sets, in order
EnumDef(cls) ==
    CASE cls = "Color" -> << <<"RED", StrV(<<"red">>)>>, <<"BLUE", StrV(<<"blue">>)>> >>
      [] cls = "Num"   -> << <<"ONE", IntV(1)>>, <<"TWO", IntV(2)>> >>

EnumClasses == {"Color", "Num"}
EnumMembers(cls) == {EnumM(cls, EnumDef(cls)[i][1]) : i \in 1..Len(EnumDef(cls))}
EnumValues(cls) == {EnumDef(cls)[i][2] : i \in 1..Len(EnumDef(cls))}
EnumByValueMutLast(cls, val) ==
    EnumM(cls, EnumDef(cls)[Len(EnumDef(cls))][1])

\* supported(value): the first member defined with that value
EnumByValue(cls, val) ==
    LET i == CHOOSE k \in 1..Len(EnumDef(cls)) :
                 /\ EnumDef(cls)[k][2] = val
                 /\ \A j \in 1..(k - 1) : EnumDef(cls)[j][2] # val
    IN EnumM(cls, EnumDef(cls)[i][1])
EnumValueOf(m) ==
    LET d == EnumDef(m.v[1])
        i == CHOOSE k \in 1..Len(d) : d[k][1] = m.v[2]
    IN d[i][2]

\* the three kinds of option container
EnumSup(cls)  == [kind |-> "enum", cls |-> cls, m |-> <<>>, items |-> {}]
MapSup(m)     == [kind |-> "map",  cls |-> "",  m |-> m,    items |-> DOMAIN m]
CollSup(items) == [kind |-> "coll", cls |-> "",  m |-> <<>>, items |-> items]

\* outcome of a call
Returns(val) == [tag |-> "return", val |-> val, exc |-> "", msg |-> "", options |-> {}]
Raises(exc, msg, options) ==
    [tag |-> "raise", val |-> NoneV, exc |-> exc, msg |-> msg, options |-> options]

(***************************************************************************)
(* utils/module.py: look_up_option                                         *)
(***************************************************************************)
LookUpMutStrip(opt_str, supported, default, print_all_options) ==
    LET o == opt_str
    IN IF ~IsHashable(opt_str)
       THEN Raises("ValueError", "Unrecognized option type", {})
       ELSE IF supported.kind = "enum" /\ o.t = "str" /\ o \in EnumValues(supported.cls)
       THEN Returns(EnumByValue(supported.cls, o))
       ELSE IF supported.kind = "enum" /\ o.t = "enum" /\ o \in EnumMembers(supported.cls)
       THEN Returns(o)
       ELSE IF supported.kind = "map" /\ o \in DOMAIN supported.m
       THEN Returns(supported.m[o])
       ELSE IF supported.kind = "coll" /\ o \in supported.items
       THEN Returns(o)
       ELSE IF default # NoDefault
       THEN Returns(default)
       ELSE LET set_to_check == IF supported.kind = "enum"
                                THEN EnumValues(supported.cls)
                                ELSE supported.items
            IN IF set_to_check = {}
               THEN Raises("ValueError", "No options available", {})
               ELSE Raises("ValueError", "Unsupported option",
                           IF print_all_options THEN set_to_check ELSE {})

look_up_option(opt_str, supported, default, print_all_options) ==
    LET o == IF opt_str.t = "str" THEN StrV(Strip(opt_str.v)) ELSE opt_str
    IN IF ~IsHashable(opt_str)
       THEN Raises("ValueError", "Unrecognized option type", {})
       ELSE IF supported.kind = "enum" /\ o.t = "str" /\ o \in EnumValues(supported.cls)
       THEN Returns(EnumByValue(supported.cls, o))
       ELSE IF supported.kind = "enum" /\ o.t = "enum" /\ o \in EnumMembers(supported.cls)
       THEN Returns(o)
       ELSE IF supported.kind = "map" /\ o \in DOMAIN supported.m
       THEN Returns(supported.m[o])
       ELSE IF supported.kind = "coll" /\ o \in supported.items
       THEN Returns(o)
       ELSE IF default # NoDefault
       THEN Returns(default)
       ELSE LET set_to_check == IF supported.kind = "enum"
                                THEN EnumValues(supported.cls)
                                ELSE supported.items
            IN IF set_to_check = {}
               THEN Raises("ValueError", "No options available", {})
               ELSE Raises("ValueError", "Unsupported option",
                           IF print_all_options THEN set_to_check ELSE {})

(***************************************************************************)
(* utils/module.py: min_version, optional_import, get_package_version      *)
(***************************************************************************)
\* s.split("."): the parts of s between its dots
RECURSIVE Split(_)
Split(s) ==
    IF \A i \in 1..Len(s) : s[i] # "." THEN <<s>>
    ELSE LET k == CHOOSE i \in 1..Len(s) :
                      s[i] = "." /\ \A j \in 1..(i - 1) : s[j] # "."
         IN <<SubSeq(s, 1, k - 1)>> \o Split(SubSeq(s, k + 1, Len(s)))

\* seq[:2]
FirstTwo(seq) == SubSeq(seq, 1, IF Len(seq) < 2 THEN Len(seq) ELSE 2)

DigitAtoms == {"0", "1", "7", "8", "9", "10"}
AtomInt(a) ==
    CASE a = "0" -> 0 [] a = "1" -> 1 [] a = "7" -> 7
      [] a = "8" -> 8 [] a = "9" -> 9 [] a = "10" -> 10

\* int(x) succeeds on a part that is a single run of digits
IntParses(part) == Len(part) = 1 /\ part[1] \in DigitAtoms
ParseInt(part) == AtomInt(part[1])

\* a >= b on tuples of int: lexicographic, a proper prefix is smaller
RECURSIVE TupleGE(_, _)
TupleGE(a, b) ==
    IF b = <<>> THEN TRUE
    ELSE IF a = <<>> THEN FALSE
    ELSE IF Head(a) # Head(b) THEN Head(a) > Head(b)
    ELSE TupleGE(Tail(a), Tail(b))

\* a loaded object: has_version is hasattr(obj, "__version__")
PyObj(id, has_version, version) ==
    [id |-> id, has_version |-> has_version, version |-> version]
NoObj == PyObj("None", FALSE, <<>>)

min_version(the_module, min_version_str) ==
    IF min_version_str = <<>> \/ ~the_module.has_version
    THEN Returns(BoolV(TRUE))
    ELSE LET mparts == FirstTwo(Split(the_module.version))
             rparts == FirstTwo(Split(min_version_str))
         IN IF \E i \in 1..Len(mparts) : ~IntParses(mparts[i])
            THEN Raises("ValueError", "invalid literal for int()", {})
            ELSE IF \E i \in 1..Len(rparts) : ~IntParses(rparts[i])
            THEN Raises("ValueError", "invalid literal for int()", {})
            ELSE LET mod_version == [i \in 1..Len(mparts) |-> ParseInt(mparts[i])]
                     required == [i \in 1..Len(rparts) |-> ParseInt(rparts[i])]
                 IN Returns(BoolV(TupleGE(mod_version, required)))

\* the pair returned by optional_import
Pair(obj, flag) == [t |-> "pair", obj |-> obj, flag |-> flag]

\* env describes what importing the named module does on this host:
\*   importable   __import__ / import_module succeed
\*   file_is_none, has_path   the two halves of the namespace-package test
\*   obj          the module object, attr_ok / attr: getattr(module, name)
optional_import(env, version, name) ==
    LET is_namespace == env.file_is_none /\ env.has_path
    IN IF ~env.importable \/ is_namespace \/ (name # <<>> /\ ~env.attr_ok)
       THEN Returns(Pair(NoObj, FALSE))
       ELSE LET the_module == IF name # <<>> THEN env.attr ELSE env.obj
                r == min_version(the_module, version)
            IN IF r.tag = "raise" THEN r
               ELSE IF r.val = BoolV(TRUE)
               THEN Returns(Pair(the_module, TRUE))
               ELSE Returns(Pair(NoObj, FALSE))

get_package_version(env, default) ==
    LET r == optional_import(env, <<>>, <<>>)
    IN IF r.tag = "raise" THEN r
       ELSE IF r.val.flag /\ r.val.obj.has_version
       THEN Returns(StrV(r.val.obj.version))
       ELSE Returns(StrV(default))

(***************************************************************************)
(* apps/utils.py: check_hash                                               *)
(***************************************************************************)
HashNames == {"md5", "sha1", "sha256", "sha512"}
SUPPORTED_HASH_TYPES == [k \in {StrV(<<n>>) : n \in HashNames} |-> Func(k.v[1])]

HashSeed(alg) ==
    CASE alg = "md5" -> 0 [] alg = "sha1" -> 1
      [] alg = "sha256" -> 2 [] alg = "sha512" -> 3

\* hashlib: update() over the bytes of the file, then hexdigest()
RECURSIVE HashUpdate(_, _)
HashUpdate(h, data) ==
    IF data = <<>> THEN h
    ELSE HashUpdate((2 * h + Head(data) + 1) % HashMod, Tail(data))
HexDigest(alg, data) == StrV(<<ToString(HashUpdate(HashSeed(alg) % HashMod, data))>>)

\* a path on disk: st is "absent", "file", "dir" or "noperm" (unreadable)
AbsentFile == [st |-> "absent", data |-> <<>>]
RegFile(data) == [st |-> "file", data |-> data]
DirEntry == [st |-> "dir", data |-> <<>>]
NoPermFile(data) == [st |-> "noperm", data |-> data]
\* open(filepath, "rb") and reading it succeed
Readable(f) == f.st = "file"

CheckHashMutNoNone(f, val, hash_type) ==
    LET r == look_up_option(StrV(hash_type), MapSup(SUPPORTED_HASH_TYPES), NoDefault, TRUE)
    IN IF r.tag = "raise" THEN r
       ELSE IF ~Readable(f) THEN Returns(BoolV(FALSE))
       ELSE IF val # HexDigest(r.val.v[1], f.data) THEN Returns(BoolV(FALSE))
       ELSE Returns(BoolV(TRUE))

check_hash(f, val, hash_type) ==
    IF val = NoneV THEN Returns(BoolV(TRUE))
    ELSE LET r == look_up_option(StrV(hash_type), MapSup(SUPPORTED_HASH_TYPES), NoDefault, TRUE)
         IN IF r.tag = "raise" THEN r
            ELSE IF ~Readable(f) THEN Returns(BoolV(FALSE))
            ELSE IF val # HexDigest(r.val.v[1], f.data) THEN Returns(BoolV(FALSE))
            ELSE Returns(BoolV(TRUE))

(***************************************************************************)
(* Inputs                                                                  *)
(***************************************************************************)
Bytes == 0..MaxByte
RECURSIVE SeqsUpTo(_, _)
SeqsUpTo(S, n) ==
    IF n = 0 THEN {<<>>}
    ELSE LET shorter == SeqsUpTo(S, n - 1)
         IN shorter \cup {Append(s, x) : s \in shorter, x \in S}
Contents == SeqsUpTo(Bytes, MaxLen)

Digests == {StrV(<<ToString(n)>>) : n \in 0..(HashMod - 1)}
HashVals == {NoneV, StrV(<<>>)} \cup Digests
HashTypes == {<<"md5">>, <<"sha1">>, <<"sha256">>, <<"sha512">>,
              <<SP, "md5", SP>>, <<"crc32">>, <<"MD5">>}
Files == {AbsentFile, DirEntry} \cup {RegFile(d) : d \in Contents}
             \cup {NoPermFile(d) : d \in Contents}

Idle == [op |-> "none"]
NoRet == Returns(NoneV)

Candidates ==
    {StrV(<<"red">>), StrV(<<SP, "red", SP>>), StrV(<<"blue">>), StrV(<<"green">>),
     StrV(<<"no_default">>), IntV(1), IntV(3), NoneV, ListV(<<>>),
     EnumM("Color", "RED"), EnumM("Num", "ONE")}
Supports ==
    {EnumSup("Color"), EnumSup("Num"),
     CollSup({StrV(<<"red">>), StrV(<<"blue">>)}),
     CollSup({StrV(<<"red">>), IntV(1), EnumM("Color", "RED")}),
     CollSup({}),
     MapSup([k \in {StrV(<<"red">>), StrV(<<"blue">>)} |->
                 IF k = StrV(<<"red">>) THEN IntV(10) ELSE NoneV]),
     MapSup([k \in {IntV(1)} |-> StrV(<<"one">>)])}
Defaults == {StrV(<<"blue">>), StrV(<<"no_default">>), NoneV, IntV(0)}

VersionStrings ==
    {<<>>, <<"1">>, <<"1", ".", "8">>, <<"1", ".", "9", ".", "0">>,
     <<"1", ".", "7", ".", "8rc1">>, <<"1", ".", "10">>, <<"0", ".", "9">>,
     <<"1", ".", "8rc1">>, <<"unknown">>, <<"1", ".">>}
ModuleObjs == {PyObj("module", hv, v) : hv \in {TRUE}, v \in VersionStrings \ {<<>>}}
                  \cup {PyObj("module", FALSE, <<>>)}
AttrObjs == {PyObj("attr", FALSE, <<>>), PyObj("attr", TRUE, <<"0", ".", "9">>)}
ImportEnvs ==
    [importable : BOOLEAN, file_is_none : BOOLEAN, has_path : BOOLEAN,
     obj : ModuleObjs, attr_ok : BOOLEAN, attr : AttrObjs]
AttrNames == {<<>>, <<"attr">>}
DefaultVersion == <<"NOT INSTALL or UNKNOWN VERSION.">>

(***************************************************************************)
(* The helpers as operations: each call records its arguments and outcome  *)
(***************************************************************************)
\* the parts of the process that the calls below never touch
HostIdle ==
    /\ cudnn = [deterministic |-> FALSE, benchmark |-> FALSE, frozen |-> FALSE,
                use_deterministic_algorithms |-> FALSE]
    /\ saved = [deterministic |-> FALSE, benchmark |-> FALSE]
    /\ rng = <<>>
    /\ loggers = <<>>
    /\ out = <<>>

\* the caller takes the outcome; the next call starts afresh
Finish ==
    /\ pc = "called"
    /\ pc' = "idle"
    /\ call' = Idle
    /\ ret' = NoRet
    /\ steps' = <<>>
    /\ UNCHANGED <<dst, tmp, net, outdir, hostVars>>

InitPure ==
    /\ pc = "idle"
    /\ call = Idle
    /\ ret = NoRet
    /\ dst = AbsentFile
    /\ tmp = AbsentFile
    /\ net = FALSE
    /\ outdir = <<>>
    /\ steps = <<>>
    /\ HostIdle

CallLookUpOption ==
    \E c \in Candidates, s \in Supports, given \in BOOLEAN, d \in Defaults, pao \in BOOLEAN :
        /\ pc = "idle"
        /\ pc' = "called"
        /\ call' = [op |-> "look_up_option", opt_str |-> c, supported |-> s,
                    given |-> given, default |-> d, print_all_options |-> pao]
        /\ ret' = look_up_option(c, s, IF given THEN d ELSE NoDefault, pao)
        /\ UNCHANGED <<dst, tmp, net, outdir, steps, hostVars>>

CallMinVersion ==
    \E m \in ModuleObjs, v \in VersionStrings :
        /\ pc = "idle"
        /\ pc' = "called"
        /\ call' = [op |-> "min_version", the_module |-> m, version |-> v]
        /\ ret' = min_version(m, v)
        /\ UNCHANGED <<dst, tmp, net, outdir, steps, hostVars>>

CallOptionalImport ==
    \E env \in ImportEnvs, v \in VersionStrings, n \in AttrNames :
        /\ pc = "idle"
        /\ pc' = "called"
        /\ call' = [op |-> "optional_import", env |-> env, version |-> v, name |-> n]
        /\ ret' = optional_import(env, v, n)
        /\ UNCHANGED <<dst, tmp, net, outdir, steps, hostVars>>

CallGetPackageVersion ==
    \E env \in ImportEnvs :
        /\ pc = "idle"
        /\ pc' = "called"
        /\ call' = [op |-> "get_package_version", env |-> env]
        /\ ret' = get_package_version(env, DefaultVersion)
        /\ UNCHANGED <<dst, tmp, net, outdir, steps, hostVars>>

CallCheckHash ==
    \E f \in Files, val \in HashVals, ht \in HashTypes :
        /\ pc = "idle"
        /\ pc' = "called"
        /\ call' = [op |-> "check_hash", file |-> f, val |-> val, hash_type |-> ht]
        /\ ret' = check_hash(f, val, ht)
        /\ UNCHANGED <<dst, tmp, net, outdir, steps, hostVars>>

NextPure ==
    \/ CallLookUpOption
    \/ CallMinVersion
    \/ CallOptionalImport
    \/ CallGetPackageVersion
    \/ CallCheckHash
    \/ Finish

SpecPure == InitPure /\ [][NextPure]_vars

(***************************************************************************)
(* apps/utils.py: download_url                                             *)
(*   dst  the destination path, tmp  the file in the temporary directory,  *)
(*   net  whether this call has used the network so far.                   *)
(*   pc   "fetch" -> "retrieve" -> "place" -> "move" (-> "copy") ->        *)
(*        "verify" -> "called"                                             *)
(***************************************************************************)
Hosts == {"drive.google.com", "cloud-api.yandex.net", "example.org"}
DownloadHashTypes == {<<"md5">>, <<"sha256">>, <<"crc32">>}
PATH == StrV(<<"filepath">>)
URL == StrV(<<"url">>)

DownloadCalls ==
    {[op |-> "download_url", hash_val |-> hv, hash_type |-> ht, host |-> h,
      has_gdown |-> hg, remote |-> r, same_fs |-> fs, dst0 |-> dst] :
        hv \in HashVals, ht \in DownloadHashTypes,
        h \in Hosts, hg \in BOOLEAN, r \in Contents, fs \in BOOLEAN}

InitDownload ==
    /\ pc = "idle"
    /\ call = Idle
    /\ ret = NoRet
    /\ dst \in {AbsentFile} \cup {RegFile(d) : d \in Contents}
    /\ tmp = AbsentFile
    /\ net = FALSE
    /\ outdir = <<>>
    /\ steps = <<>>
    /\ HostIdle

\* leaving the call with an exception: the temporary directory is removed
RaiseOut(exc, msg, named) ==
    /\ ret' = Raises(exc, msg, named)
    /\ pc' = "called"
    /\ tmp' = AbsentFile

\* lines 170-176, with a faulty variant that discards the file it rejects
DownloadExistingMutDiscard ==
    /\ pc = "idle"
    /\ dst.st # "absent"
    /\ \E c \in DownloadCalls :
        /\ c.has_gdown = (c.host = "drive.google.com")
        /\ call' = c
        /\ LET r == check_hash(dst, c.hash_val, c.hash_type)
           IN /\ ret' = IF r.tag = "raise" THEN r
                     ELSE IF r.val = BoolV(FALSE)
                     THEN Raises("RuntimeError", "check of existing file failed",
                                 {PATH, c.hash_val})
                     ELSE Returns(NoneV)
              /\ dst' = IF r.tag = "return" /\ r.val = BoolV(FALSE) THEN AbsentFile ELSE dst
    /\ pc' = "called"
    /\ net' = FALSE
    /\ UNCHANGED <<tmp, outdir, steps, hostVars>>

\* filepath.exists(): verify the file that is there and return or raise
DownloadExisting ==
    /\ pc = "idle"
    /\ dst.st # "absent"
    /\ \E c \in DownloadCalls :
        /\ c.has_gdown = (c.host = "drive.google.com")
        /\ call' = c
        /\ LET r == check_hash(dst, c.hash_val, c.hash_type)
           IN ret' = IF r.tag = "raise" THEN r
                     ELSE IF r.val = BoolV(FALSE)
                     THEN Raises("RuntimeError", "check of existing file failed",
                                 {PATH, c.hash_val})
                     ELSE Returns(NoneV)
    /\ pc' = "called"
    /\ net' = FALSE
    /\ UNCHANGED <<dst, tmp, outdir, steps, hostVars>>

\* nothing at the destination: enter the temporary directory
DownloadBegin ==
    /\ pc = "idle"
    /\ dst.st = "absent"
    /\ \E c \in DownloadCalls :
        /\ c.host # "drive.google.com" => ~c.has_gdown
        /\ call' = c
    /\ pc' = "fetch"
    /\ tmp' = AbsentFile
    /\ net' = FALSE
    /\ ret' = NoRet
    /\ UNCHANGED <<dst, outdir, steps, hostVars>>

\* drive.google.com: gdown.download(url, tmp_name, quite=..., fuzzy=...).
\* gdown.download has a parameter quiet and none named quite, and takes no
\* arbitrary keywords: the call raises TypeError before anything is fetched.
FetchGdown ==
    /\ pc = "fetch"
    /\ call.host = "drive.google.com"
    /\ IF ~call.has_gdown
       THEN RaiseOut("RuntimeError", "please install the gdown dependency", {})
       ELSE RaiseOut("TypeError", "unexpected keyword argument", {})
    /\ UNCHANGED <<call, dst, net, outdir, steps, hostVars>>

\* cloud-api.yandex.net: urlopen, status code, then the href is retrieved
FetchYandex ==
    /\ pc = "fetch"
    /\ call.host = "cloud-api.yandex.net"
    /\ net' = TRUE
    /\ \/ RaiseOut("URLError", "urlopen failed", {})
       \/ RaiseOut("RuntimeError", "Error code, network issue or denied permission",
                   {URL, PATH})
       \/ /\ pc' = "retrieve"
          /\ UNCHANGED <<ret, tmp>>
    /\ UNCHANGED <<call, dst, outdir, steps, hostVars>>

\* every other host: _download_with_progress(url, tmp_name)
FetchDirect ==
    /\ pc = "fetch"
    /\ call.host \notin {"drive.google.com", "cloud-api.yandex.net"}
    /\ pc' = "retrieve"
    /\ UNCHANGED <<call, ret, dst, tmp, net, outdir, steps, hostVars>>

\* urlretrieve opens the temporary file once the server answers
RetrieveOpen ==
    /\ pc = "retrieve"
    /\ tmp.st = "absent"
    /\ net' = TRUE
    /\ tmp' = RegFile(<<>>)
    /\ UNCHANGED <<pc, call, ret, dst, outdir, steps, hostVars>>

\* ... and appends the blocks it reads
RetrieveChunk ==
    /\ pc = "retrieve"
    /\ tmp.st = "file"
    /\ Len(tmp.data) < Len(call.remote)
    /\ tmp' = RegFile(Append(tmp.data, call.remote[Len(tmp.data) + 1]))
    /\ UNCHANGED <<pc, call, ret, dst, net, outdir, steps, hostVars>>

RetrieveDone ==
    /\ pc = "retrieve"
    /\ tmp = RegFile(call.remote)
    /\ pc' = "place"
    /\ UNCHANGED <<call, ret, dst, tmp, net, outdir, steps, hostVars>>

\* URLError, HTTPError, ContentTooShortError: logged and raised again
RetrieveError ==
    /\ pc = "retrieve"
    /\ net' = TRUE
    /\ \E e \in {"URLError", "HTTPError", "ContentTooShortError"} :
           RaiseOut(e, "Download failed", {})
    /\ UNCHANGED <<call, dst, outdir, steps, hostVars>>

\* tmp_name.exists(), then os.makedirs(filedir, exist_ok=True)
Place ==
    /\ pc = "place"
    /\ IF tmp.st = "absent"
       THEN RaiseOut("RuntimeError", "failed due to network issue or denied permission",
                     {URL, PATH})
       ELSE \/ /\ pc' = "move"
               /\ UNCHANGED <<ret, tmp>>
            \/ \* PermissionError, NotADirectoryError: caught and passed over
               /\ pc' = "verify"
               /\ tmp' = AbsentFile
               /\ UNCHANGED ret
            \/ RaiseOut("OSError", "makedirs failed", {})
    /\ UNCHANGED <<call, dst, net, outdir, steps, hostVars>>

\* shutil.move on one filesystem: os.rename puts the whole file in place
MoveRename ==
    /\ pc = "move"
    /\ call.same_fs
    /\ dst' = tmp
    /\ tmp' = AbsentFile
    /\ pc' = "verify"
    /\ UNCHANGED <<call, ret, net, outdir, steps, hostVars>>

\* shutil.move across filesystems: os.rename fails, the file is copied to
\* the destination and the source is unlinked afterwards
MoveCopyOpen ==
    /\ pc = "move"
    /\ ~call.same_fs
    /\ dst' = RegFile(<<>>)
    /\ pc' = "copy"
    /\ UNCHANGED <<call, ret, tmp, net, outdir, steps, hostVars>>

\* PermissionError, NotADirectoryError from the move: caught and passed over
MoveDenied ==
    /\ pc = "move"
    /\ pc' = "verify"
    /\ tmp' = AbsentFile
    /\ UNCHANGED <<call, ret, dst, net, outdir, steps, hostVars>>

CopyChunk ==
    /\ pc = "copy"
    /\ Len(dst.data) < Len(tmp.data)
    /\ dst' = RegFile(Append(dst.data, tmp.data[Len(dst.data) + 1]))
    /\ UNCHANGED <<pc, call, ret, tmp, net, outdir, steps, hostVars>>

CopyDone ==
    /\ pc = "copy"
    /\ dst.data = tmp.data
    /\ tmp' = AbsentFile
    /\ pc' = "verify"
    /\ UNCHANGED <<call, ret, dst, net, outdir, steps, hostVars>>

\* the copy fails part-way (disk full, I/O error): not a caught error
CopyError ==
    /\ pc = "copy"
    /\ RaiseOut("OSError", "copy failed", {})
    /\ UNCHANGED <<call, dst, net, outdir, steps, hostVars>>

\* the process is interrupted between two steps of the call
Interrupt ==
    /\ pc \in {"fetch", "retrieve", "place", "move", "copy", "verify"}
    /\ RaiseOut("KeyboardInterrupt", "", {})
    /\ UNCHANGED <<call, dst, net, outdir, steps, hostVars>>

\* lines 209-213: check_hash of the destination after the try block
Verify ==
    /\ pc = "verify"
    /\ LET r == check_hash(dst, call.hash_val, call.hash_type)
       IN ret' = IF r.tag = "raise" THEN r
                 ELSE IF r.val = BoolV(FALSE)
                 THEN Raises("RuntimeError", "check of downloaded file failed", {URL})
                 ELSE Returns(NoneV)
    /\ pc' = "called"
    /\ UNCHANGED <<call, dst, tmp, net, outdir, steps, hostVars>>

NextDownload ==
    \/ DownloadExisting
    \/ DownloadBegin
    \/ FetchGdown
    \/ FetchYandex
    \/ FetchDirect
    \/ RetrieveOpen
    \/ RetrieveChunk
    \/ RetrieveDone
    \/ RetrieveError
    \/ Place
    \/ MoveRename
    \/ MoveCopyOpen
    \/ MoveDenied
    \/ CopyChunk
    \/ CopyDone
    \/ CopyError
    \/ Interrupt
    \/ Verify
    \/ Finish

SpecDownload == InitDownload /\ [][NextDownload]_vars

(***************************************************************************)
(* apps/utils.py: extractall                                               *)
(*   outdir  the output directory: whether it exists and, for each name,   *)
(*           what is there: "absent", "file", "emptydir" or "dir" (a       *)
(*           directory with at least one entry)                            *)
(*   steps   the library calls the current call has made                   *)
(***************************************************************************)
Names == {<<"x">>, <<"y">>}
Kinds == {"absent", "file", "emptydir", "dir"}
NoEntries == [n \in Names |-> "absent"]
NoOutDir == [exists |-> FALSE, entries |-> NoEntries]
OutDirs == {NoOutDir} \cup {[exists |-> TRUE, entries |-> e] : e \in [Names -> Kinds]}

\* Path(p).name: the last part, a trailing "/" dropped
PathName(p) == LastSegment(RStrip(p, {"/"}))

\* cache_dir relative to output_dir; <<>> is output_dir itself
CacheDirMutNoSplit(filepath, has_base) ==
    IF has_base THEN Basename(filepath) ELSE <<>>

CacheDir(filepath, has_base) ==
    IF has_base THEN SplitDotFirst(Basename(filepath)) ELSE <<>>

\* what is at output_dir/rel
EntryAt(od, rel) ==
    IF ~od.exists THEN "absent"
    ELSE IF rel = <<>>
    THEN IF \E n \in Names : od.entries[n] # "absent" THEN "dir" ELSE "emptydir"
    ELSE IF rel \notin Names THEN "absent"
    ELSE od.entries[rel]

\* cache_dir.exists() and next(cache_dir.iterdir(), None) is not None
SkipCheck(od, filepath, has_base) ==
    LET k == EntryAt(od, CacheDir(filepath, has_base))
    IN IF k = "absent" THEN "go"
       ELSE IF k = "file" THEN "NotADirectoryError"
       ELSE IF k = "dir" THEN "skip"
       ELSE "go"

\* lines 258-271: which extraction the name and file_type select
ArchiveKind(filepath, file_type) ==
    LET name == PathName(filepath)
        ftype == Strip(Lower(file_type))
    IN IF EndsWith(name, <<"zip">>) \/ ftype = <<"zip">> THEN "zip"
       ELSE IF \/ EndsWith(name, <<"tar">>)
               \/ EndsWith(name, <<"tar", ".", "gz">>)
               \/ Contains(ftype, <<"tar">>)
       THEN "tar"
       ELSE "unsupported"

SupportedArchives == {StrV(<<"zip">>), StrV(<<"tar", ".", "gz">>), StrV(<<"tar">>)}

\* ZipFile.extractall / TarFile.extractall: the entries of the archive are
\* written under output_dir, directories are merged
Conflict(old, new) ==
    \/ old = "file" /\ new \in {"emptydir", "dir"}
    \/ old \in {"emptydir", "dir"} /\ new = "file"
MergeEntry(old, new) ==
    IF new = "absent" THEN old
    ELSE IF old = "absent" THEN new
    ELSE IF old = "file" THEN "file"
    ELSE IF old = "dir" \/ new = "dir" THEN "dir" ELSE "emptydir"
\* the entries with the names in W written
Written(od, content, W) ==
    [exists |-> TRUE,
     entries |-> [n \in Names |-> IF n \in W THEN MergeEntry(od.entries[n], content[n])
                                  ELSE od.entries[n]]]

ArchivePaths ==
    {<<"x", ".", "zip">>, <<"d", "/", "x", ".", "tar", ".", "gz">>, <<"x", ".", "tar">>,
     <<"x", ".", "7z">>, <<"y", ".", "1", ".", "zip", "/">>, <<"x", ".", "g", "zip">>}
FileTypes ==
    {<<>>, <<"tar">>, <<SP, "ZIP", SP>>, <<"TAR", ".", "GZ">>, <<"rar">>}
ArchiveContents ==
    {NoEntries,
     [n \in Names |-> IF n = <<"x">> THEN "dir" ELSE "absent"],
     [n \in Names |-> IF n = <<"y">> THEN "file" ELSE "absent"],
     [n \in Names |-> IF n = <<"x">> THEN "emptydir" ELSE "file"]}
\* the archive on disk: its real format, its bytes, what it unpacks to
Archives ==
    {[fmt |-> f, file |-> RegFile(<<1>>), content |-> c] :
         f \in {"zip", "tar"}, c \in ArchiveContents}
    \cup {[fmt |-> "corrupt", file |-> RegFile(<<0>>), content |-> NoEntries],
          [fmt |-> "missing", file |-> AbsentFile, content |-> NoEntries]}
ExtractHashTypes == {<<"md5">>, <<"crc32">>}

ExtractCalls ==
    {[op |-> "extractall", filepath |-> fp, archive |-> a, hash_val |-> hv,
      hash_type |-> ht, file_type |-> ft, has_base |-> hb,
      outdir0 |-> outdir, prev |-> "none"] :
        fp \in ArchivePaths, a \in Archives, hv \in HashVals,
        ht \in ExtractHashTypes, ft \in FileTypes, hb \in BOOLEAN}

InitExtract ==
    /\ pc = "idle"
    /\ call = Idle
    /\ ret = NoRet
    /\ dst = AbsentFile
    /\ tmp = AbsentFile
    /\ net = FALSE
    /\ outdir \in OutDirs
    /\ steps = <<>>
    /\ HostIdle

\* hash_val is truthy: neither None nor ""
Truthy(val) == val # NoneV /\ val # StrV(<<>>)

\* the body of extractall for the arguments c, run on the current outdir
ExtractBody(c) ==
    LET sk == SkipCheck(outdir, c.filepath, c.has_base)
        h == check_hash(c.archive.file, c.hash_val, c.hash_type)
        kind == ArchiveKind(c.filepath, c.file_type)
        opener == IF kind = "zip" THEN "ZipFile" ELSE "tarfile.open"
    IN IF sk = "skip"
       THEN /\ ret' = Returns(NoneV)
            /\ steps' = <<>>
            /\ UNCHANGED outdir
       ELSE IF sk # "go"
       THEN /\ ret' = Raises(sk, "iterdir", {})
            /\ steps' = <<>>
            /\ UNCHANGED outdir
       ELSE IF Truthy(c.hash_val) /\ h.tag = "raise"
       THEN /\ ret' = h
            /\ steps' = <<"check_hash">>
            /\ UNCHANGED outdir
       ELSE IF Truthy(c.hash_val) /\ h.val = BoolV(FALSE)
       THEN /\ ret' = Raises("RuntimeError", "check of compressed file failed",
                             {PATH, c.hash_val})
            /\ steps' = <<"check_hash">>
            /\ UNCHANGED outdir
       ELSE LET pre == IF Truthy(c.hash_val) THEN <<"check_hash">> ELSE <<>>
            IN IF kind = "unsupported"
               THEN /\ ret' = Raises("NotImplementedError", "Unsupported file type",
                                     SupportedArchives)
                    /\ steps' = pre
                    /\ UNCHANGED outdir
               ELSE IF c.archive.fmt # kind
               THEN \* FileNotFoundError, BadZipFile, ReadError
                    /\ ret' = Raises("OpenError", c.archive.fmt, {})
                    /\ steps' = pre \o <<opener>>
                    /\ UNCHANGED outdir
               ELSE LET bad == {n \in Names :
                                   Conflict(outdir.entries[n], c.archive.content[n])}
                    IN /\ steps' = pre \o <<opener, "extractall">>
                       /\ IF bad = {}
                          THEN /\ outdir' = Written(outdir, c.archive.content, Names)
                               /\ ret' = Returns(NoneV)
                          ELSE \* one entry cannot be written: the call raises
                               \* with some of the others already written
                               /\ \E W \in SUBSET (Names \ bad) :
                                      outdir' = Written(outdir, c.archive.content, W)
                               /\ ret' = Raises("OSError", "extract", {})

ExtractAll ==
    /\ pc = "idle"
    /\ \E c \in ExtractCalls :
        /\ call' = c
        /\ ExtractBody(c)
    /\ pc' = "called"
    /\ UNCHANGED <<dst, tmp, net, hostVars>>

Outcome ==
    IF ret.tag = "raise" THEN "raised"
    ELSE IF steps = <<>> THEN "skipped"
    ELSE "extracted"

\* the caller repeats the call it just made, with the same arguments
ExtractAgain ==
    /\ pc = "called"
    /\ call.op = "extractall"
    /\ call.prev = "none"
    /\ call' = [call EXCEPT !.outdir0 = outdir, !.prev = Outcome]
    /\ ExtractBody(call)
    /\ UNCHANGED <<pc, dst, tmp, net, hostVars>>

NextExtract ==
    \/ ExtractAll
    \/ ExtractAgain
    \/ Finish

SpecExtract == InitExtract /\ [][NextExtract]_vars

(***************************************************************************)
(* utils/misc.py: set_determinism                                          *)
(*   cudnn  torch.backends.cudnn.deterministic / .benchmark, whether the   *)
(*          backend flags are frozen, torch.use_deterministic_algorithms   *)
(*   saved  _flag_deterministic, _flag_cudnn_benchmark (set at import)     *)
(*   rng    _seed and the generators of random, numpy.random and torch     *)
(*   steps  the callbacks of additional_settings invoked by the call       *)
(***************************************************************************)
NP_MAX == 2 ^ SeedBits - 1
MAX_SEED == NP_MAX + 1

ReduceSeedMutNpMax(seed) == seed % NP_MAX

\* int(seed) % MAX_SEED
ReduceSeed(seed) == seed % MAX_SEED

\* a generator: seeded with a value, or from the entropy of the system
Seeded(n) == [src |-> "seed", seed |-> n, draws |-> 0]
FromEntropy == [src |-> "entropy", seed |-> 0, draws |-> 0]
\* random.seed(x), np.random.seed(x): x None seeds from entropy
SeedWith(x) == IF x = NoneV THEN FromEntropy ELSE Seeded(x.v[1])

\* is_sequence_iterable / ensure_tuple on None, one callback or a sequence
ensure_tuple(vals) == IF vals.t = "list" THEN vals.v ELSE <<vals>>

NewFlagsMutKeep(seed, cur) ==
    IF seed # NoneV
    THEN [cur EXCEPT !.deterministic = TRUE, !.benchmark = FALSE, !.frozen = FALSE]
    ELSE [cur EXCEPT !.frozen = FALSE]

\* lines 86-95: unfreeze the backend flags, then force or restore them
NewFlags(seed, cur) ==
    IF seed # NoneV
    THEN [cur EXCEPT !.deterministic = TRUE, !.benchmark = FALSE, !.frozen = FALSE]
    ELSE [cur EXCEPT !.deterministic = saved.deterministic,
                     !.benchmark = saved.benchmark, !.frozen = FALSE]

Callback(name) == [t |-> "func", v |-> <<name>>]
\* "bad" is a callback that raises
Settings ==
    {NoneV, Callback("f"), ListV(<<>>), ListV(<<Callback("f"), Callback("g")>>),
     ListV(<<Callback("g"), Callback("bad"), Callback("f")>>)}
SeedArgs == {NoneV} \cup {IntV(n) : n \in (0 - MAX_SEED - 1)..(MAX_SEED + 1)}
\* torch.default_generator.seed() returns a fresh 64-bit number
FreshSeeds == 0..(MAX_SEED + 1)
Generators == {"random", "numpy", "torch"}

InitSeed ==
    /\ pc = "idle"
    /\ call = Idle
    /\ ret = NoRet
    /\ dst = AbsentFile
    /\ tmp = AbsentFile
    /\ net = FALSE
    /\ outdir = <<>>
    /\ steps = <<>>
    /\ saved \in [deterministic : BOOLEAN, benchmark : BOOLEAN]
    /\ cudnn = [deterministic |-> saved.deterministic, benchmark |-> saved.benchmark,
                frozen |-> FALSE, use_deterministic_algorithms |-> FALSE]
    /\ rng = [_seed |-> NoneV, random |-> FromEntropy, numpy |-> FromEntropy,
              torch |-> FromEntropy]
    /\ loggers = <<>>
    /\ out = <<>>

\* the callbacks up to and including the first that raises
RECURSIVE Invoked(_)
Invoked(fs) ==
    IF fs = <<>> THEN <<>>
    ELSE IF Head(fs).v[1] = "bad" THEN <<Head(fs)>>
    ELSE <<Head(fs)>> \o Invoked(Tail(fs))

SetDeterminism ==
    /\ pc = "idle"
    /\ \E seed_arg \in SeedArgs, uda \in {NoneV, BoolV(TRUE), BoolV(FALSE)},
          additional_settings \in Settings, fresh \in FreshSeeds :
        LET \* lines 68-74: seed stays None on the randomize path
            seed == IF seed_arg = NoneV THEN NoneV
                    ELSE IntV(ReduceSeed(seed_arg.v[1]))
            torch_seed == IF seed_arg = NoneV THEN ReduceSeed(fresh) ELSE seed.v[1]
            funcs == IF additional_settings = NoneV THEN <<>>
                     ELSE ensure_tuple(additional_settings)
            done == Invoked(funcs)
            failed == done # <<>> /\ done[Len(done)].v[1] = "bad"
        IN /\ seed_arg # NoneV => fresh = 0
           /\ call' = [op |-> "set_determinism", seed |-> seed_arg,
                       use_deterministic_algorithms |-> uda,
                       additional_settings |-> additional_settings]
           /\ rng' = [_seed |-> seed, random |-> SeedWith(seed), numpy |-> SeedWith(seed),
                      torch |-> Seeded(torch_seed)]
           /\ steps' = [i \in 1..Len(done) |-> <<done[i], seed>>]
           /\ IF failed
              THEN /\ ret' = Raises("CallbackError", "additional_settings", {})
                   /\ UNCHANGED cudnn
              ELSE /\ ret' = Returns(NoneV)
                   /\ cudnn' = [NewFlags(seed, cudnn) EXCEPT
                                   !.use_deterministic_algorithms =
                                       IF uda = NoneV THEN @ ELSE uda.v[1]]
    /\ pc' = "called"
    /\ UNCHANGED <<dst, tmp, net, outdir, saved, loggers, out>>

\* other code of the process sets or freezes the backend flags
SetBackendFlags ==
    /\ pc = "idle"
    /\ \E d \in BOOLEAN, b \in BOOLEAN, f \in BOOLEAN :
           cudnn' = [cudnn EXCEPT !.deterministic = d, !.benchmark = b, !.frozen = f]
    /\ cudnn' # cudnn
    /\ UNCHANGED <<pc, call, ret, dst, tmp, net, outdir, steps, saved, rng, loggers, out>>

\* a generator hands out its next value
Draw ==
    /\ pc = "idle"
    /\ \E g \in Generators :
        /\ rng[g].draws < MaxDraws
        /\ rng' = [rng EXCEPT ![g].draws = @ + 1]
    /\ UNCHANGED <<pc, call, ret, dst, tmp, net, outdir, steps, cudnn, saved, loggers, out>>

NextSeed ==
    \/ SetDeterminism
    \/ SetBackendFlags
    \/ Draw
    \/ Finish

SpecSeed == InitSeed /\ [][NextSeed]_vars

(***************************************************************************)
(* config/deviceconfig.py: get_system_info, print_debug_info               *)
(*   out  the lines written by the current call: to the stream passed as   *)
(*        file when it is a capturing stream, and to sys.stdout            *)
(* A host says what the probes do: the value of platform.system(), what    *)
(* /etc/os-release is, whether psutil is installed, which probes raise.    *)
(***************************************************************************)
UNKNOWN == "UNKNOWN for given OS"
PlatformKeys == <<"Plaform", "Processor", "Machine", "Python version">>
ProcessKeys ==
    <<"Process name", "Command", "Open files", "Num physical CPUs", "Num logical CPUs",
      "Num usable CPUs", "CPU usage (%)", "CPU freq. (MHz)",
      "Load avg. in last 1, 5, 15 mins (%)", "Disk usage (%)",
      "Avg. sensor temp. (Celsius)">>
MemoryKeys == <<"Total physical memory (GB)", "Available memory (GB)", "Used memory (GB)">>
SeqRange(seq) == {seq[i] : i \in 1..Len(seq)}
\* the calls made through _dict_append, by the key they fill
GuardedProbes ==
    {"System", "Win32 version", "Win32 edition", "Mac version"}
        \cup SeqRange(PlatformKeys) \cup SeqRange(ProcessKeys)
\* the calls made outside _dict_append
BareProbes == {"psutil.Process", "psutil.virtual_memory"}
Probes == GuardedProbes \cup BareProbes

\* the key written when psutil is not installed (the source puts psutil in backquotes)
PsutilMissing == "psutil missing"
\* _dict_append(in_dict, key, fn): fn() or the literal on any exception
DictAppend(host, key, val) ==
    <<key, IF key \in host.fails THEN UNKNOWN ELSE val>>
Entries(host, keys) == [i \in 1..Len(keys) |-> DictAppend(host, keys[i], "value")]

get_system_info(host) ==
    LET system == DictAppend(host, "System", host.system)
        head == <<system>>
        os_part ==
            IF system[2] = "Windows"
            THEN <<DictAppend(host, "Win32 version", "value")>>
                     \o (IF host.win32_edition
                         THEN <<DictAppend(host, "Win32 edition", "value")>> ELSE <<>>)
            ELSE IF system[2] = "Darwin"
            THEN <<DictAppend(host, "Mac version", "value")>>
            ELSE IF host.os_release = "pretty"
            THEN <<DictAppend(host, "Linux version", "value")>>
            ELSE <<>>
        upto_python == head \o os_part \o Entries(host, PlatformKeys)
    IN IF system[2] \notin {"Windows", "Darwin"} /\ host.os_release = "absent"
       THEN Raises("FileNotFoundError", "/etc/os-release", {})
       ELSE IF system[2] \notin {"Windows", "Darwin"} /\ host.os_release = "unreadable"
       THEN Raises("PermissionError", "/etc/os-release", {})
       ELSE IF ~host.has_psutil
       THEN Returns(upto_python \o << <<PsutilMissing, "run pip install psutil">> >>)
       ELSE IF "psutil.Process" \in host.fails
       THEN Raises("psutil.Error", "psutil.Process", {})
       ELSE IF "psutil.virtual_memory" \in host.fails
       THEN Raises("psutil.Error", "psutil.virtual_memory", {})
       ELSE Returns(upto_python \o Entries(host, ProcessKeys)
                        \o [i \in 1..Len(MemoryKeys) |-> <<MemoryKeys[i], "value">>])

Systems == {"Windows", "Darwin", "Linux", "FreeBSD"}
OsReleases == {"absent", "unreadable", "no_pretty", "pretty"}
RECURSIVE SubsetsUpTo(_, _)
SubsetsUpTo(S, n) ==
    IF n = 0 THEN {{}}
    ELSE LET smaller == SubsetsUpTo(S, n - 1)
         IN smaller \cup {T \cup {x} : T \in smaller, x \in S}
HostsOfReport ==
    {h \in [system : Systems, win32_edition : BOOLEAN, os_release : OsReleases,
            has_psutil : BOOLEAN, fails : SubsetsUpTo(Probes, MaxFailures)] :
        /\ h.system # "Windows" => h.win32_edition
        /\ (h.system \in {"Windows", "Darwin"} /\ "System" \notin h.fails)
               => h.os_release = "pretty"}

\* get_gpu_info: the keys of its report
GpuKeys(gpu) ==
    LET n == "GPU " \o ToString(gpu)
    IN <<n \o " Name", n \o " Is integrated", n \o " Is multi GPU board",
         n \o " Multi processor count", n \o " Total memory (GB)",
         n \o " CUDA capability (maj.min)">>
RECURSIVE AllGpuKeys(_)
AllGpuKeys(n) == IF n = 0 THEN <<>> ELSE AllGpuKeys(n - 1) \o GpuKeys(n - 1)
get_gpu_info(g) ==
    LET keys == <<"Num GPUs", "Has CUDA">>
                    \o (IF g.has_cuda THEN <<"CUDA version">> ELSE <<>>)
                    \o <<"cuDNN enabled", "NVIDIA_TF32_OVERRIED",
                         "TORCH_ALLOW_TF32_CUBLAS_OVERRIDE">>
                    \o (IF g.cudnn THEN <<"cuDNN version">> ELSE <<>>)
                    \o (IF g.num_gpus > 0
                        THEN <<"Current device", "Library compiled for CUDA architectures">>
                        ELSE <<>>)
                    \o AllGpuKeys(g.num_gpus)
    IN [i \in 1..Len(keys) |-> <<keys[i], "value">>]
GpuHosts == [num_gpus : 0..MaxGpus, has_cuda : BOOLEAN, cudnn : BOOLEAN]

\* print_config: versions, user name, optional dependencies
ConfigLines ==
    << <<"MONAI version", "value">>, <<"Numpy version", "value">>,
       <<"Pytorch version", "value">>, <<"">>, <<"username", "value">>,
       <<"">>, <<"Optional dependencies:">>,
       <<"ITK version", "value">>, <<"Nibabel version", "value">>,
       <<"scikit-image version", "value">>, <<"Pillow version", "value">>,
       <<"Tensorboard version", "value">>, <<"gdown version", "value">>,
       <<"TorchVision version", "value">>, <<"tqdm version", "value">>,
       <<"lmdb version", "value">> >>

BANNER == "================================"
TitleConfig == "Printing MONAI config..."
TitleSystem == "Printing system config..."
TitleGpu == "Printing GPU config..."
\* print(text, file=file) and print(text): where a line goes
ToFile(lines) == [i \in 1..Len(lines) |-> <<"file", lines[i]>>]
ToStdout(lines) == [i \in 1..Len(lines) |-> <<"stdout", lines[i]>>]

\* the writes of print_debug_info, in order, and how it ends
print_debug_info(host, g) ==
    LET sys == get_system_info(host)
        first == ToFile(<< <<BANNER>>, <<TitleConfig>>, <<BANNER>> >>)
                     \o ToFile(ConfigLines)
                     \o ToFile(<< <<"">>, <<BANNER>> >>)
                     \o ToStdout(<< <<TitleSystem>> >>)
                     \o ToFile(<< <<BANNER>> >>)
    IN IF sys.tag = "raise"
       THEN [writes |-> first, ret |-> sys]
       ELSE [writes |-> first \o ToFile(sys.val)
                           \o ToFile(<< <<"">>, <<BANNER>> >>)
                           \o ToStdout(<< <<TitleGpu>> >>)
                           \o ToFile(<< <<BANNER>> >>)
                           \o ToFile(get_gpu_info(g)),
             ret |-> Returns(NoneV)]

\* the lines of writes that reach the stream named target
RECURSIVE Reaching(_, _, _)
Reaching(writes, target, capture) ==
    IF writes = <<>> THEN <<>>
    ELSE LET w == Head(writes)
             goes == IF capture THEN w[1] ELSE "stdout"
         IN (IF goes = target THEN <<w[2]>> ELSE <<>>)
                \o Reaching(Tail(writes), target, capture)

InitReport ==
    /\ pc = "idle"
    /\ call = Idle
    /\ ret = NoRet
    /\ dst = AbsentFile
    /\ tmp = AbsentFile
    /\ net = FALSE
    /\ outdir = <<>>
    /\ steps = <<>>
    /\ cudnn = [deterministic |-> FALSE, benchmark |-> FALSE, frozen |-> FALSE,
                use_deterministic_algorithms |-> FALSE]
    /\ saved = [deterministic |-> FALSE, benchmark |-> FALSE]
    /\ rng = <<>>
    /\ loggers = <<>>
    /\ out = [file |-> <<>>, stdout |-> <<>>]

CallGetSystemInfo ==
    /\ pc = "idle"
    /\ \E host \in HostsOfReport :
        /\ call' = [op |-> "get_system_info", host |-> host]
        /\ ret' = get_system_info(host)
    /\ pc' = "called"
    /\ out' = [file |-> <<>>, stdout |-> <<>>]
    /\ UNCHANGED <<dst, tmp, net, outdir, steps, cudnn, saved, rng, loggers>>

\* capture: file is a stream of its own; otherwise file is sys.stdout
PrintDebugInfo ==
    /\ pc = "idle"
    /\ \E host \in HostsOfReport, g \in GpuHosts, capture \in BOOLEAN :
        LET r == print_debug_info(host, g)
        IN /\ call' = [op |-> "print_debug_info", host |-> host, gpu |-> g,
                       capture |-> capture]
           /\ ret' = r.ret
           /\ out' = [file |-> Reaching(r.writes, "file", capture),
                      stdout |-> Reaching(r.writes, "stdout", capture)]
    /\ pc' = "called"
    /\ UNCHANGED <<dst, tmp, net, outdir, steps, cudnn, saved, rng, loggers>>

\* the caller has read the report and drops the streams of the call
FinishReport ==
    /\ pc = "called"
    /\ pc' = "idle"
    /\ call' = Idle
    /\ ret' = NoRet
    /\ out' = [file |-> <<>>, stdout |-> <<>>]
    /\ UNCHANGED <<dst, tmp, net, outdir, steps, cudnn, saved, rng, loggers>>

NextReport ==
    \/ CallGetSystemInfo
    \/ PrintDebugInfo
    \/ FinishReport

SpecReport == InitReport /\ [][NextReport]_vars

(***************************************************************************)
(* apps/utils.py: get_logger, over the registry of the logging library     *)
(*   loggers  dict: logging.root.manager.loggerDict, by name (an entry is  *)
(*            absent, a PlaceHolder made for the parent of a dotted name,  *)
(*            or a Logger); root: the root logger, which is in no dict     *)
(* A logger name is the sequence of its dot-separated parts; a handler is  *)
(* "stdout" for a StreamHandler(sys.stdout) made by get_logger, or the     *)
(* name of a handler object the caller owns.                               *)
(***************************************************************************)
NoLogger == [kind |-> "absent", handlers |-> <<>>, level |-> "NOTSET", propagate |-> TRUE]
PlaceHolder == [kind |-> "placeholder", handlers |-> <<>>, level |-> "NOTSET", propagate |-> TRUE]
NewLogger == [kind |-> "logger", handlers |-> <<>>, level |-> "NOTSET", propagate |-> TRUE]
RootLogger == [kind |-> "logger", handlers |-> <<>>, level |-> "WARNING", propagate |-> TRUE]

LoggerNames == {<<"default", "apps">>, <<"default">>, <<"apps">>}
\* logging.getLogger returns the root logger for these names
RootNames == {<<>>, <<"root">>}
NameArgs == LoggerNames \cup RootNames
ExtraHandlers == {"h1", "h2"}
HandlerV(h) == [t |-> "handler", v |-> <<h>>]

Parents(name) == {SubSeq(name, 1, k) : k \in 1..(Len(name) - 1)}
\* name in logging.root.manager.loggerDict
InLoggerDict(reg, name) == name \in LoggerNames /\ reg.dict[name].kind # "absent"
\* logging.getLogger(name): the registry afterwards
getLogger(reg, name) ==
    IF name \in RootNames THEN reg
    ELSE [reg EXCEPT !.dict =
             [n \in LoggerNames |->
                 IF n = name
                 THEN (IF reg.dict[n].kind = "logger" THEN reg.dict[n] ELSE NewLogger)
                 ELSE IF n \in Parents(name) /\ reg.dict[n].kind = "absent"
                 THEN PlaceHolder
                 ELSE reg.dict[n]]]
LoggerOf(reg, name) == IF name \in RootNames THEN reg.root ELSE reg.dict[name]
PutLogger(reg, name, lg) ==
    IF name \in RootNames THEN [reg EXCEPT !.root = lg] ELSE [reg EXCEPT !.dict[name] = lg]
\* Logger.addHandler: a handler already on the logger is not added again
addHandler(lg, h) ==
    IF h \in SeqRange(lg.handlers) THEN lg ELSE [lg EXCEPT !.handlers = Append(@, h)]
\* a StreamHandler made by the call is a new object each time
AddStdout(lg, adds_stdout_handler) ==
    IF adds_stdout_handler THEN [lg EXCEPT !.handlers = Append(@, "stdout")] ELSE lg

\* the registry after get_logger(module_name, logger_handler=logger_handler)
get_logger(reg, module_name, logger_handler) ==
    LET adds_stdout_handler ==
            module_name # NoneV /\ ~InLoggerDict(reg, module_name.v)
        name == IF module_name = NoneV THEN <<>> ELSE module_name.v
        reg1 == getLogger(reg, name)
        lg1 == [LoggerOf(reg1, name) EXCEPT !.propagate = FALSE, !.level = "INFO"]
        lg2 == AddStdout(lg1, adds_stdout_handler)
        lg3 == IF logger_handler # NoneV THEN addHandler(lg2, logger_handler.v[1]) ELSE lg2
    IN PutLogger(reg1, name, lg3)

\* the state after the module is loaded: logger = get_logger("default.apps")
InitLog ==
    /\ pc = "idle"
    /\ call = Idle
    /\ ret = NoRet
    /\ dst = AbsentFile
    /\ tmp = AbsentFile
    /\ net = FALSE
    /\ outdir = <<>>
    /\ steps = <<>>
    /\ cudnn = [deterministic |-> FALSE, benchmark |-> FALSE, frozen |-> FALSE,
                use_deterministic_algorithms |-> FALSE]
    /\ saved = [deterministic |-> FALSE, benchmark |-> FALSE]
    /\ rng = <<>>
    /\ loggers = get_logger([dict |-> [n \in LoggerNames |-> NoLogger], root |-> RootLogger],
                            StrV(<<"default", "apps">>), NoneV)
    /\ out = <<>>

GetLogger ==
    /\ pc = "idle"
    /\ \E module_name \in {NoneV} \cup {StrV(n) : n \in NameArgs},
          logger_handler \in {NoneV} \cup {HandlerV(h) : h \in ExtraHandlers} :
        LET after == get_logger(loggers, module_name, logger_handler)
            name == IF module_name = NoneV THEN <<>> ELSE module_name.v
        IN /\ Len(LoggerOf(after, name).handlers) <= MaxHandlers
           /\ loggers' = after
           /\ call' = [op |-> "get_logger", module_name |-> module_name,
                       logger_handler |-> logger_handler]
           /\ ret' = Returns([t |-> "logger", v |-> name])
    /\ pc' = "called"
    /\ UNCHANGED <<dst, tmp, net, outdir, steps, cudnn, saved, rng, out>>

\* other code of the process asks the logging library for a logger
LoggingGetLogger ==
    /\ pc = "idle"
    /\ \E name \in LoggerNames :
        /\ loggers.dict[name].kind # "logger"
        /\ loggers' = getLogger(loggers, name)
    /\ UNCHANGED <<pc, call, ret, dst, tmp, net, outdir, steps, cudnn, saved, rng, out>>

NextLog ==
    \/ GetLogger
    \/ LoggingGetLogger
    \/ Finish

SpecLog == InitLog /\ [][NextLog]_vars

(***************************************************************************)
(* Properties of the helpers (checked under SpecPure)                      *)
(***************************************************************************)
IsCall(op) == pc = "called" /\ call.op = op
\* the candidate as the lookup compares it
Stripped(c) == IF c.t = "str" THEN StrV(Strip(c.v)) ELSE c

\* C4: optional_import, get_package_version and min_version never raise,
\* whatever the module and the version strings are.
C4_NeverRaise ==
    (pc = "called" /\ call.op \in {"optional_import", "get_package_version", "min_version"})
        => ret.tag = "return"

VersionParses(v) ==
    \A i \in 1..Len(FirstTwo(Split(v))) : IntParses(FirstTwo(Split(v))[i])
MajorMinor(v) ==
    [i \in 1..Len(FirstTwo(Split(v))) |-> ParseInt(FirstTwo(Split(v))[i])]
ModuleLoads(env, name) ==
    /\ env.importable
    /\ ~(env.file_is_none /\ env.has_path)
    /\ (name # <<>> => env.attr_ok)
ModuleOlder(env, version) ==
    /\ version # <<>>
    /\ env.obj.has_version
    /\ VersionParses(env.obj.version)
    /\ VersionParses(version)
    /\ ~TupleGE(MajorMinor(env.obj.version), MajorMinor(version))

\* C5: optional_import returns (None, False) whenever the module loads but
\* its version is older than minimum_version, with or without an
\* attribute_name; a found result is the resolved object with True.
C5_RejectsOlderModule ==
    IsCall("optional_import") =>
        /\ (ModuleLoads(call.env, call.name) /\ ModuleOlder(call.env, call.version))
               => ret = Returns(Pair(NoObj, FALSE))
        /\ (ret.tag = "return" /\ ret.val.flag)
               => /\ ModuleLoads(call.env, call.name)
                  /\ ret.val.obj = IF call.name # <<>> THEN call.env.attr ELSE call.env.obj

PlainLookup == IsCall("look_up_option") /\ call.supported.kind \in {"coll", "map"}
                   /\ IsHashable(call.opt_str)
IsMember == Stripped(call.opt_str) \in call.supported.items
MemberResult ==
    IF call.supported.kind = "map"
    THEN Returns(call.supported.m[Stripped(call.opt_str)])
    ELSE Returns(Stripped(call.opt_str))
UnsupportedOptionError ==
    /\ ret.tag = "raise"
    /\ ret.exc = "ValueError"
    /\ call.supported.items # {} =>
           /\ ret.msg = "Unsupported option"
           /\ call.print_all_options => ret.options = call.supported.items
    /\ call.supported.items = {} => ret.msg = "No options available"

\* C6 as stated: on a plain collection or mapping a member is returned as
\* itself (collection) or as its mapped value (mapping); a non-member gives
\* the default for every explicitly supplied default value, and otherwise
\* the unsupported-option error listing the valid options.
C6_Original ==
    PlainLookup =>
        /\ IsMember => ret = MemberResult
        /\ (~IsMember /\ call.given) => ret = Returns(call.default)
        /\ (~IsMember /\ ~call.given) => UnsupportedOptionError

\* C6 amended: as above, but a supplied default equal to the string
\* "no_default" counts as no default: the lookup raises.
C6_LookupPlain ==
    PlainLookup =>
        /\ IsMember => ret = MemberResult
        /\ (~IsMember /\ call.given /\ call.default # StrV(<<"no_default">>))
               => ret = Returns(call.default)
        /\ (~IsMember /\ (~call.given \/ call.default = StrV(<<"no_default">>)))
               => UnsupportedOptionError

C6_Witness ==
    /\ PlainLookup
    /\ ~IsMember
    /\ call.given
    /\ call.default = StrV(<<"blue">>)
    /\ ret = Returns(StrV(<<"blue">>))

EnumLookup == IsCall("look_up_option") /\ call.supported.kind = "enum"
                  /\ IsHashable(call.opt_str)
ReturnsMemberWithValue(val) ==
    /\ ret.tag = "return"
    /\ ret.val \in EnumMembers(call.supported.cls)
    /\ EnumValueOf(ret.val) = val

\* C7 as stated: with an enumerated type every hashable candidate equal to
\* a member's value, string or not, gives that member; a candidate that is
\* already a member is returned itself.
C7_Original ==
    EnumLookup =>
        /\ Stripped(call.opt_str) \in EnumValues(call.supported.cls)
               => ReturnsMemberWithValue(Stripped(call.opt_str))
        /\ call.opt_str \in EnumMembers(call.supported.cls)
               => ret = Returns(call.opt_str)

\* C7 amended: only a string candidate is matched against the members'
\* values; a candidate that is already a member is returned itself.
C7_LookupEnum ==
    EnumLookup =>
        /\ (call.opt_str.t = "str"
                /\ Stripped(call.opt_str) \in EnumValues(call.supported.cls))
               => ReturnsMemberWithValue(Stripped(call.opt_str))
        /\ call.opt_str \in EnumMembers(call.supported.cls)
               => ret = Returns(call.opt_str)

C7_Witness ==
    /\ EnumLookup
    /\ call.opt_str = StrV(<<SP, "red", SP>>)
    /\ ret = Returns(EnumM("Color", "RED"))

HashTypeSupported == Strip(call.hash_type) \in {<<n>> : n \in HashNames}
\* the digest of the file under the chosen algorithm
FileDigest == HexDigest(Strip(call.hash_type)[1], call.file.data)

\* C10: check_hash is true exactly when no digest is expected, or the file
\* is readable and its digest equals the expected one; false without
\* raising otherwise; an expected digest with an unknown algorithm raises
\* the unsupported-option error listing the valid names.
C10_CheckHash ==
    IsCall("check_hash") =>
        /\ call.val = NoneV => ret = Returns(BoolV(TRUE))
        /\ (call.val # NoneV /\ HashTypeSupported) =>
               ret = Returns(BoolV(Readable(call.file) /\ call.val = FileDigest))
        /\ (call.val # NoneV /\ ~HashTypeSupported) =>
               /\ ret.tag = "raise"
               /\ ret.exc = "ValueError"
               /\ ret.msg = "Unsupported option"
               /\ ret.options = {StrV(<<n>>) : n \in HashNames}

C10_Witness ==
    /\ IsCall("check_hash")
    /\ call.val # NoneV
    /\ call.file.st = "file"
    /\ call.file.data # <<>>
    /\ call.hash_type = <<"sha256">>
    /\ ret = Returns(BoolV(TRUE))

(***************************************************************************)
(* Properties of download_url (checked under SpecDownload)                 *)
(***************************************************************************)
InDownload == pc # "idle" /\ call.op = "download_url"
DstDigestIs(val) ==
    /\ Strip(call.hash_type) \in {<<n>> : n \in HashNames}
    /\ val = HexDigest(Strip(call.hash_type)[1], call.dst0.data)
AlgUnknown == Strip(call.hash_type) \notin {<<n>> : n \in HashNames}

\* C1: with a file already at the destination download_url uses no network
\* and leaves the file as it is; it returns when the file passes check_hash
\* or no digest is expected, and raises the integrity error naming the path
\* and the expected value when check_hash fails.
C1_ExistingFile ==
    (InDownload /\ call.dst0.st = "file") =>
        /\ pc = "called"
        /\ net = FALSE
        /\ dst = call.dst0
        /\ (call.hash_val = NoneV \/ DstDigestIs(call.hash_val))
               => ret = Returns(NoneV)
        /\ (call.hash_val # NoneV /\ ~AlgUnknown /\ ~DstDigestIs(call.hash_val))
               => ret = Raises("RuntimeError", "check of existing file failed",
                               {PATH, call.hash_val})

C1_Witness ==
    /\ InDownload
    /\ call.dst0.st = "file"
    /\ call.hash_val # NoneV
    /\ ~AlgUnknown
    /\ ~DstDigestIs(call.hash_val)
    /\ ret.exc = "RuntimeError"
    /\ dst = call.dst0

\* C2: whenever download_url returns without raising, a file is at the
\* destination and, if a digest was expected, the file has that digest;
\* also after a PermissionError or NotADirectoryError of makedirs or move,
\* and also when no digest is expected.
C2_ReturnMeansFile ==
    (InDownload /\ pc = "called" /\ ret.tag = "return") =>
        /\ dst.st = "file"
        /\ call.hash_val # NoneV =>
               /\ ~AlgUnknown
               /\ call.hash_val = HexDigest(Strip(call.hash_type)[1], dst.data)

\* C3: at every step of download_url, an error or interruption included,
\* the destination is absent or holds a complete file (the file that was
\* there before the call, or the whole downloaded file), never a part.
C3_NoPartialFile ==
    InDownload =>
        \/ dst.st = "absent"
        \/ dst = call.dst0
        \/ dst = RegFile(call.remote)

(***************************************************************************)
(* Properties of extractall (checked under SpecExtract)                    *)
(***************************************************************************)
\* the base name up to its first ".": the name without its extension(s)
Stem(name) ==
    LET k == CHOOSE i \in 0..Len(name) :
                 /\ \A j \in 1..i : name[j] # "."
                 /\ i = Len(name) \/ name[i + 1] = "."
    IN SubSeq(name, 1, k)
ExpectedRoot == IF call.has_base THEN Stem(Basename(call.filepath)) ELSE <<>>
Range(seq) == {seq[i] : i \in 1..Len(seq)}

NotSkipped == EntryAt(call.outdir0, ExpectedRoot) \in {"absent", "emptydir"}
HashPasses ==
    ~Truthy(call.hash_val)
        \/ check_hash(call.archive.file, call.hash_val, call.hash_type) = Returns(BoolV(TRUE))
\* the kind the claim expects: the override when given, else the suffix
ClaimedKind ==
    LET name == PathName(call.filepath)
        override == Strip(Lower(call.file_type))
    IN IF override # <<>>
       THEN IF override = <<"zip">> THEN "zip"
            ELSE IF Contains(override, <<"tar">>) THEN "tar"
            ELSE "unsupported"
       ELSE IF EndsWith(name, <<".", "zip">>) THEN "zip"
            ELSE IF EndsWith(name, <<".", "tar">>) \/ EndsWith(name, <<".", "tar", ".", "gz">>)
            THEN "tar"
            ELSE "unsupported"
UsedKind ==
    IF "ZipFile" \in Range(steps) THEN "zip"
    ELSE IF "tarfile.open" \in Range(steps) THEN "tar"
    ELSE "unsupported"

\* C9: when extractall does not skip, file_type_override (lower-cased,
\* trimmed) decides the archive kind if given, and only otherwise the
\* suffix of the file name; anything else raises the unsupported-format
\* error naming zip, tar.gz and tar and extracts nothing.
C9_OverrideDecidesKind ==
    (IsCall("extractall") /\ NotSkipped /\ HashPasses) =>
        /\ UsedKind = ClaimedKind
        /\ ClaimedKind = "unsupported" =>
               /\ ret = Raises("NotImplementedError", "Unsupported file type",
                               SupportedArchives)
               /\ outdir = call.outdir0

(***************************************************************************)
(* Properties of set_determinism (checked under SpecSeed)                  *)
(***************************************************************************)
Returned(op) == IsCall(op) /\ ret.tag = "return"
FlagsOfLastCall ==
    Returned("set_determinism") =>
        /\ call.seed # NoneV => (cudnn.deterministic /\ ~cudnn.benchmark)
        /\ call.seed = NoneV => /\ cudnn.deterministic = saved.deterministic
                                /\ cudnn.benchmark = saved.benchmark

\* C11: after a set_determinism call the kernel flags depend only on that
\* call: a concrete seed gives deterministic true and benchmark false, an
\* absent seed gives the two values captured at module load; no call ever
\* overwrites the captured values.
C11_FlagsFollowLastCall ==
    /\ [] FlagsOfLastCall
    /\ [][saved' = saved]_vars

C11_Witness ==
    /\ Returned("set_determinism")
    /\ call.seed = NoneV
    /\ saved.benchmark
    /\ ~saved.deterministic
    /\ cudnn.benchmark
    /\ ~cudnn.deterministic

\* the residue of n modulo 2^SeedBits, by its definition
Residue(n) ==
    CHOOSE v \in 0..NP_MAX : \E k \in (0 - 4)..4 : n = v + k * (NP_MAX + 1)

\* C12: for every integer seed, negative, zero or beyond the seed width,
\* the one value seed mod 2^width (in 0 .. 2^width - 1) is applied to the
\* process generator, the array generator and the tensor generator, and is
\* recorded as the process-wide seed.
C12_SameSeedEverywhere ==
    (IsCall("set_determinism") /\ call.seed # NoneV) =>
        LET v == Residue(call.seed.v[1])
        IN /\ v \in 0..NP_MAX
           /\ rng.random = Seeded(v)
           /\ rng.numpy = Seeded(v)
           /\ rng.torch = Seeded(v)
           /\ rng._seed = IntV(v)

C12_Witness ==
    /\ IsCall("set_determinism")
    /\ call.seed = IntV(0 - 1)
    /\ rng._seed = IntV(NP_MAX)
    /\ rng.torch = Seeded(NP_MAX)

\* the callbacks the caller passed, in order
GivenCallbacks ==
    IF call.additional_settings = NoneV THEN <<>>
    ELSE IF call.additional_settings.t = "list" THEN call.additional_settings.v
    ELSE <<call.additional_settings>>

\* C13: set_determinism invokes every callback of additional_settings once,
\* in order, with the resolved seed: the reduced seed on the concrete path
\* and the freshly drawn, reduced seed (the one given to the tensor
\* runtime) on the absent-seed path; a callback always gets an integer in
\* 0 .. 2^width - 1.
C13_CallbacksGetResolvedSeed ==
    Returned("set_determinism") =>
        /\ Len(steps) = Len(GivenCallbacks)
        /\ \A i \in 1..Len(steps) :
               /\ steps[i][1] = GivenCallbacks[i]
               /\ steps[i][2] = IntV(rng.torch.seed)
               /\ steps[i][2].v[1] \in 0..NP_MAX

(***************************************************************************)
(* Properties of the reports (checked under SpecReport)                    *)
(***************************************************************************)
\* title stands in text right after a banner line, at a position in lo..hi
TitleAt(text, title, i) ==
    /\ i \in 2..Len(text)
    /\ text[i] = <<title>>
    /\ text[i - 1] = <<BANNER>>
TitlesInOrder(text) ==
    \E i, j, k \in 2..Len(text) :
        /\ i < j /\ j < k
        /\ TitleAt(text, TitleConfig, i)
        /\ TitleAt(text, TitleSystem, j)
        /\ TitleAt(text, TitleGpu, k)

\* C14: print_debug_info called with a capturing stream writes all of its
\* output to that stream: the captured text holds the three section titles in
\* order, each right after a banner line of 32 '=' characters, and nothing is
\* written to any other stream.
C14_AllOutputCaptured ==
    (Returned("print_debug_info") /\ call.capture) =>
        /\ Len(BANNER) = 32
        /\ TitlesInOrder(out.file)
        /\ out.stdout = <<>>

ReportKeys(report) == {report[i][1] : i \in 1..Len(report)}
\* C15: get_system_info always returns a report: each failing probe's entry
\* holds the literal "UNKNOWN for given OS", and on a host that is neither
\* Windows nor macOS where /etc/os-release is absent or has no PRETTY_NAME
\* field the "Linux version" entry is left out and no error escapes.
C15_AlwaysReports ==
    IsCall("get_system_info") =>
        /\ ret.tag = "return"
        /\ \A i \in 1..Len(ret.val) :
               ret.val[i][1] \in call.host.fails => ret.val[i][2] = UNKNOWN
        /\ (/\ call.host.system \notin {"Windows", "Darwin"}
            /\ call.host.os_release \in {"absent", "no_pretty"})
               => "Linux version" \notin ReportKeys(ret.val)

(***************************************************************************)
(* Properties of get_logger (checked under SpecLog)                        *)
(***************************************************************************)
StdoutHandlers(lg) == Cardinality({i \in 1..Len(lg.handlers) : lg.handlers[i] = "stdout"})
AtMostOneStdout == \A n \in NameArgs : StdoutHandlers(LoggerOf(loggers, n)) <= 1
ConfiguredAfterCall ==
    Returned("get_logger") =>
        LET lg == LoggerOf(loggers, ret.val.v)
        IN /\ ~lg.propagate
           /\ lg.level = "INFO"
           /\ call.logger_handler # NoneV => call.logger_handler.v[1] \in SeqRange(lg.handlers)
\* this step is a call get_logger(n, ...)
CallsWithName(n) ==
    /\ pc = "idle" /\ pc' = "called"
    /\ call'.op = "get_logger"
    /\ call'.module_name = StrV(n)
StdoutOnFirstCallOnly ==
    \A n \in NameArgs :
        /\ (CallsWithName(n) /\ ~InLoggerDict(loggers, n))
               => StdoutHandlers(LoggerOf(loggers', n)) = 1
        /\ (CallsWithName(n) /\ InLoggerDict(loggers, n))
               => StdoutHandlers(LoggerOf(loggers', n)) = StdoutHandlers(LoggerOf(loggers, n))

\* C16: after any sequence of get_logger calls each named logger carries at
\* most one standard-output handler attached by get_logger, attached on the
\* call that first registers the name and on no later call with that name;
\* every call leaves the logger non-propagating at INFO level with the
\* supplied extra handler attached.
C16_OneStdoutHandler ==
    /\ [](AtMostOneStdout /\ ConfiguredAfterCall)
    /\ [][StdoutOnFirstCallOnly]_vars

====
